---- MODULE Spec2Model ----
(***************************************************************************)
(* State-machine model of the ink! contract VotingContract (src/lib.rs).   *)
(*                                                                         *)
(* The persisted state is the four storage fields of the contract.  The    *)
(* environment is the block clock, the PSP22 balance oracle and the        *)
(* outcome of env().transfer.  Every message is one atomic action; `last`  *)
(* records what the most recent call was given, what it returned and which *)
(* transfers it invoked, and `paid` counts the successful transfers made   *)
(* for each proposal id.                                                   *)
(*                                                                         *)
(* A panic (Option::unwrap on None) traps the call: it returns no          *)
(* GovernorError, and nothing was written before the panicking line.       *)
(***************************************************************************)
EXTENDS Integers, Sequences, FiniteSets, TLC

VARIABLES proposal_votes, proposals, next_proposal_id, governance_token,
          now, balance, last, paid

vars == <<proposal_votes, proposals, next_proposal_id, governance_token,
          now, balance, last, paid>>

\* The fields of the #[ink(storage)] struct.
persisted == <<proposal_votes, proposals, next_proposal_id, governance_token>>

----------------------------------------------------------------------------
\* Program constants and types

ONE_MINUTE == 60 * 1000

\* GovernorError variants, plus the two outcomes that are not a GovernorError.
GovernorError == {"AmountShouldNotBeZero", "DurationError", "ProposalNotFound",
                  "ProposalAlreadyExecuted", "VotePeriodEnded",
                  "VotePeriodNotEnded", "TransferError", "ProposalNotAccepted"}

----------------------------------------------------------------------------
\* Bounds of the model

\* Number of proposals the model lets propose store.
MaxProposals == 2

\* Accounts whose balance the oracle reports.
Addresses == {"a1", "a2"}

\* Accounts offered to propose as for_address, against_address and to.
ForAddresses == {"a1"}

AgainstAddresses == {"a2"}

Beneficiaries == {"a3"}

\* Oracle balances (u128); 256 is the first balance the u8 cast wraps.
Balances == {0, 1, 256}

\* Amounts offered to propose.
Amounts == {0, 1, 2}

\* Durations offered to propose: 0, the smallest, one more than 60, and one
\* more than the bound the code compares with.
Durations == {0, 1, 61, 60 * ONE_MINUTE + 1}

Titles == {"t"}

Descriptions == {"d"}

\* Block timestamps the clock may show: the start, the last instant and the
\* end of a 1-minute window opened at time 0.
TimePoints == {0, ONE_MINUTE - 1, ONE_MINUTE}

\* Ids offered to execute and the queries: the stored ones and some unknown.
Ids == 0 .. MaxProposals

----------------------------------------------------------------------------
\* Option<T> as a sequence of length 0 (None) or 1 (Some)

None == <<>>

Some(x) == <<x>>

\* Mapping::get
MappingGet(m, k) == IF k \in DOMAIN m THEN Some(m[k]) ELSE None

\* Mapping::insert
MappingInsert(m, k, v) == [x \in DOMAIN m \cup {k} |-> IF x = k THEN v ELSE m[x]]

----------------------------------------------------------------------------
\* The observation of a call: its message, its inputs, what it returned and
\* the transfers it invoked.  Fields a message does not use keep these values.
NoCall == [op |-> "env", id |-> 0, amount |-> 0, duration |-> 0,
           transfer_ok |-> FALSE, result |-> "none", vote |-> None,
           proposal |-> None, size |-> 0, sent |-> <<>>]

\* VotingContract::new, with the clock and the oracle in some initial state.
Init ==
    /\ proposal_votes = <<>>
    /\ proposals = <<>>
    /\ next_proposal_id = 0
    /\ governance_token = "token"
    /\ now = 0
    /\ balance \in [Addresses -> Balances]
    /\ last = NoCall
    /\ paid = [i \in Ids |-> 0]

----------------------------------------------------------------------------
\* The environment

\* The block timestamp moves forward between calls.
Tick ==
    /\ \E t \in TimePoints : t > now /\ now' = t
    /\ last' = NoCall
    /\ UNCHANGED <<persisted, balance, paid>>

\* The governance token's balances change between calls.
SetBalance ==
    /\ \E a \in Addresses, b \in Balances :
          /\ balance[a] # b
          /\ balance' = [balance EXCEPT ![a] = b]
    /\ last' = NoCall
    /\ UNCHANGED <<persisted, now, paid>>

----------------------------------------------------------------------------
\* Private helpers of the contract

\* account_weight: the PSP22 balance cast to u8.
account_weight(caller) == balance[caller] % 256

\* propose checking the duration before the amount.
ProposeResultSwapped(amount, duration) ==
    IF duration = 0 \/ duration > 60 * ONE_MINUTE THEN "DurationError"
    ELSE IF amount = 0 THEN "AmountShouldNotBeZero"
    ELSE "Ok"

\* The checks of propose, in the order the code makes them.
ProposeResult(amount, duration) ==
    IF amount = 0 THEN "AmountShouldNotBeZero"
    ELSE IF duration = 0 \/ duration > 60 * ONE_MINUTE THEN "DurationError"
    ELSE "Ok"

\* propose storing the proposal as already executed.
NewProposalExecuted(for_address, against_address, to, title, description, amount, duration) ==
    [for_address |-> for_address, against_address |-> against_address,
     to |-> to, title |-> title, description |-> description,
     amount |-> amount, vote_start |-> now,
     vote_end |-> now + duration * ONE_MINUTE, executed |-> TRUE]

\* propose adding the duration to the timestamp without its unit.
NewProposalNoUnit(for_address, against_address, to, title, description, amount, duration) ==
    [for_address |-> for_address, against_address |-> against_address,
     to |-> to, title |-> title, description |-> description,
     amount |-> amount, vote_start |-> now,
     vote_end |-> now + duration, executed |-> FALSE]

\* The Proposal value propose builds.
NewProposal(for_address, against_address, to, title, description, amount, duration) ==
    [for_address |-> for_address, against_address |-> against_address,
     to |-> to, title |-> title, description |-> description,
     amount |-> amount, vote_start |-> now,
     vote_end |-> now + duration * ONE_MINUTE, executed |-> FALSE]

\* The ProposalVote value execute and get_proposal_vote fill in.
CurrentVotes(proposal) ==
    [against_votes |-> account_weight(proposal.against_address),
     for_votes |-> account_weight(proposal.for_address)]

----------------------------------------------------------------------------
\* Messages

\* next_proposal_id() returning the counter after the increment.
NextProposalIdPreIncrement ==
    [id |-> next_proposal_id + 1, counter |-> next_proposal_id + 1]

\* next_proposal_id() that forgets the increment.
NextProposalIdNoIncrement ==
    [id |-> next_proposal_id, counter |-> next_proposal_id]

\* fn next_proposal_id: the id it returns and the counter it leaves.
NextProposalId ==
    [id |-> next_proposal_id, counter |-> next_proposal_id + 1]

\* propose that also inserts a default vote record for the new id.
propose_with_vote_record(for_address, against_address, to, title, description, amount, duration) ==
    LET result == ProposeResult(amount, duration)
        id == NextProposalId.id
    IN  /\ result = "Ok" => next_proposal_id < MaxProposals
        /\ IF result = "Ok"
           THEN /\ next_proposal_id' = NextProposalId.counter
                /\ proposals' = MappingInsert(proposals, id,
                        NewProposal(for_address, against_address, to, title,
                                    description, amount, duration))
                /\ proposal_votes' = MappingInsert(proposal_votes, id,
                        [against_votes |-> 0, for_votes |-> 0])
           ELSE UNCHANGED <<proposals, next_proposal_id, proposal_votes>>
        /\ last' = [NoCall EXCEPT !.op = "propose", !.amount = amount,
                                  !.duration = duration, !.result = result]
        /\ UNCHANGED <<governance_token, now, balance, paid>>

propose(for_address, against_address, to, title, description, amount, duration) ==
    LET result == ProposeResult(amount, duration)
        id == NextProposalId.id
    IN  /\ result = "Ok" => next_proposal_id < MaxProposals
        /\ IF result = "Ok"
           THEN /\ next_proposal_id' = NextProposalId.counter
                /\ proposals' = MappingInsert(proposals, id,
                        NewProposal(for_address, against_address, to, title,
                                    description, amount, duration))
           ELSE UNCHANGED <<proposals, next_proposal_id>>
        /\ last' = [NoCall EXCEPT !.op = "propose", !.amount = amount,
                                  !.duration = duration, !.result = result]
        /\ UNCHANGED <<proposal_votes, governance_token, now, balance, paid>>

\* The voting-period gate of execute.
VotePeriodNotEndedFlipped(proposal) == now > proposal.vote_end

VotePeriodNotEnded(proposal) == now < proposal.vote_end

\* The accept test of execute: a tie rejects.
NotAccepted(votes) == votes.against_votes >= votes.for_votes

\* execute returning the wrong variant for a missing proposal.
ExecuteResultWrongVariant(proposal_id, transfer_ok) ==
    IF MappingGet(proposals, proposal_id) = None THEN "ProposalAlreadyExecuted"
    ELSE IF proposals[proposal_id].executed THEN "ProposalAlreadyExecuted"
    ELSE IF VotePeriodNotEnded(proposals[proposal_id]) THEN "VotePeriodNotEnded"
    ELSE IF MappingGet(proposal_votes, proposal_id) = None THEN "Panic"
    ELSE IF NotAccepted(CurrentVotes(proposals[proposal_id])) THEN "ProposalNotAccepted"
    ELSE IF ~transfer_ok THEN "TransferError"
    ELSE "Ok"

\* execute without the voting-period gate, reading the vote record with a
\* default instead of unwrap.
ExecuteResultUngated(proposal_id, transfer_ok) ==
    IF MappingGet(proposals, proposal_id) = None THEN "ProposalNotFound"
    ELSE IF proposals[proposal_id].executed THEN "ProposalAlreadyExecuted"
    ELSE IF NotAccepted(CurrentVotes(proposals[proposal_id])) THEN "ProposalNotAccepted"
    ELSE IF ~transfer_ok THEN "TransferError"
    ELSE "Ok"

\* What execute returns, its checks in the order the code makes them; "Panic"
\* is the unwrap of a missing vote record, which traps the call.
ExecuteResult(proposal_id, transfer_ok) ==
    IF MappingGet(proposals, proposal_id) = None THEN "ProposalNotFound"
    ELSE IF proposals[proposal_id].executed THEN "ProposalAlreadyExecuted"
    ELSE IF VotePeriodNotEnded(proposals[proposal_id]) THEN "VotePeriodNotEnded"
    ELSE IF MappingGet(proposal_votes, proposal_id) = None THEN "Panic"
    ELSE IF NotAccepted(CurrentVotes(proposals[proposal_id])) THEN "ProposalNotAccepted"
    ELSE IF ~transfer_ok THEN "TransferError"
    ELSE "Ok"

execute(proposal_id, transfer_ok) ==
    LET result == ExecuteResult(proposal_id, transfer_ok)
    IN  /\ IF result \in {"TransferError", "Ok"}
           THEN last' = [NoCall EXCEPT !.op = "execute", !.id = proposal_id,
                            !.transfer_ok = transfer_ok, !.result = result,
                            !.sent = <<[to |-> proposals[proposal_id].to,
                                        amount |-> proposals[proposal_id].amount]>>]
           ELSE last' = [NoCall EXCEPT !.op = "execute", !.id = proposal_id,
                            !.transfer_ok = transfer_ok, !.result = result]
        /\ IF result = "Ok"
           THEN /\ proposals' = MappingInsert(proposals, proposal_id,
                        [proposals[proposal_id] EXCEPT !.executed = TRUE])
                /\ paid' = [paid EXCEPT ![proposal_id] = @ + 1]
           ELSE UNCHANGED <<proposals, paid>>
        /\ UNCHANGED <<proposal_votes, next_proposal_id, governance_token,
                       now, balance>>

\* get_proposal_vote storing the tally it computed in proposal_votes.
get_proposal_vote_persisting(proposal_id) ==
    /\ last' = IF MappingGet(proposals, proposal_id) = None
               THEN [NoCall EXCEPT !.op = "get_proposal_vote", !.id = proposal_id,
                                   !.result = "None"]
               ELSE [NoCall EXCEPT !.op = "get_proposal_vote", !.id = proposal_id,
                                   !.result = "Some",
                                   !.vote = Some(CurrentVotes(proposals[proposal_id]))]
    /\ proposal_votes' = IF MappingGet(proposals, proposal_id) = None
                         THEN proposal_votes
                         ELSE MappingInsert(proposal_votes, proposal_id,
                                            CurrentVotes(proposals[proposal_id]))
    /\ UNCHANGED <<proposals, next_proposal_id, governance_token, now, balance, paid>>

get_proposal_vote(proposal_id) ==
    /\ last' = IF MappingGet(proposals, proposal_id) = None
               THEN [NoCall EXCEPT !.op = "get_proposal_vote", !.id = proposal_id,
                                   !.result = "None"]
               ELSE IF MappingGet(proposal_votes, proposal_id) = None
               THEN [NoCall EXCEPT !.op = "get_proposal_vote", !.id = proposal_id,
                                   !.result = "Panic"]
               ELSE [NoCall EXCEPT !.op = "get_proposal_vote", !.id = proposal_id,
                                   !.result = "Some",
                                   !.vote = Some(CurrentVotes(proposals[proposal_id]))]
    /\ UNCHANGED <<persisted, now, balance, paid>>

get_proposal(proposal_id) ==
    /\ last' = [NoCall EXCEPT !.op = "get_proposal", !.id = proposal_id,
                   !.result = IF MappingGet(proposals, proposal_id) = None
                              THEN "None" ELSE "Some",
                   !.proposal = MappingGet(proposals, proposal_id)]
    /\ UNCHANGED <<persisted, now, balance, paid>>

get_proposals_size ==
    /\ last' = [NoCall EXCEPT !.op = "get_proposals_size", !.result = "Ok",
                              !.size = next_proposal_id]
    /\ UNCHANGED <<persisted, now, balance, paid>>

----------------------------------------------------------------------------
Propose ==
    \E f \in ForAddresses, a \in AgainstAddresses, to \in Beneficiaries, t \in Titles,
       d \in Descriptions, amount \in Amounts, duration \in Durations :
        propose(f, a, to, t, d, amount, duration)

Execute == \E id \in Ids, ok \in BOOLEAN : execute(id, ok)

GetProposalVote == \E id \in Ids : get_proposal_vote(id)

GetProposal == \E id \in Ids : get_proposal(id)

GetProposalsSize == get_proposals_size

Next ==
    \/ Propose
    \/ Execute
    \/ GetProposalVote
    \/ GetProposal
    \/ GetProposalsSize
    \/ Tick
    \/ SetBalance

Spec == Init /\ [][Next]_vars

----------------------------------------------------------------------------
\* Vocabulary of the properties

\* The step is a call of execute on proposal_id.
ExecuteCalled(proposal_id) == last'.op = "execute" /\ last'.id = proposal_id

\* The step is a call of propose.
ProposeCalled == last'.op = "propose"

\* proposal_id is stored and not executed.
Pending(proposal_id) ==
    proposal_id \in DOMAIN proposals /\ ~proposals[proposal_id].executed

\* The tally execute would compute now.
ForWeight(proposal_id) == CurrentVotes(proposals[proposal_id]).for_votes

AgainstWeight(proposal_id) == CurrentVotes(proposals[proposal_id]).against_votes

\* The one transfer execute is to invoke for proposal_id.
TransferOf(proposal_id) ==
    <<[to |-> proposals[proposal_id].to, amount |-> proposals[proposal_id].amount]>>

----------------------------------------------------------------------------
\* C1: execute on a stored, not executed proposal with now >= vote_end,
\* for_weight > against_weight and a transfer that succeeds returns Ok, sets
\* the stored executed flag and invokes exactly the one transfer of the
\* proposal's amount to its beneficiary.
C1_ExecuteSucceeds ==
    [][\A id \in Ids :
        (/\ ExecuteCalled(id)
         /\ last'.transfer_ok
         /\ Pending(id)
         /\ now >= proposals[id].vote_end
         /\ ForWeight(id) > AgainstWeight(id))
        => (/\ last'.result = "Ok"
            /\ proposals'[id].executed
            /\ last'.sent = TransferOf(id))]_vars

\* C2: when the transfer fails in an execute that passed every earlier
\* check, the call returns TransferError and the persisted state is unchanged.
C2_TransferErrorKeepsState ==
    [][\A id \in Ids :
        (/\ ExecuteCalled(id)
         /\ ~last'.transfer_ok
         /\ Pending(id)
         /\ now >= proposals[id].vote_end
         /\ ForWeight(id) > AgainstWeight(id))
        => (/\ last'.result = "TransferError"
            /\ UNCHANGED persisted)]_vars

\* C3: a proposal is stored with executed = FALSE, a flag that is TRUE stays
\* TRUE, and no proposal id is ever paid more than once.
C3_ExecutedOnce ==
    [][\A id \in Ids :
        /\ (id \notin DOMAIN proposals /\ id \in DOMAIN proposals')
              => ~proposals'[id].executed
        /\ (id \in DOMAIN proposals /\ proposals[id].executed)
              => (id \in DOMAIN proposals' /\ proposals'[id].executed)
        /\ (id \in DOMAIN proposals /\ ~proposals[id].executed
               /\ id \in DOMAIN proposals' /\ proposals'[id].executed)
              => (ExecuteCalled(id) /\ paid[id] = 0)
        /\ paid'[id] <= 1]_vars

\* C3 witness: execute has run on a stored proposal whose window has closed,
\* and the proposal is still unexecuted and unpaid.
C3_Witness ==
    /\ last.op = "execute"
    /\ Pending(last.id)
    /\ now >= proposals[last.id].vote_end
    /\ paid[last.id] = 0

\* C4: a call that invokes a transfer is an execute of a stored proposal, to
\* its beneficiary, made with now >= vote_end and for_weight > against_weight
\* in that call; and no stored proposal is executed while now < vote_end.
C4_TransferOnlyWhenAccepted ==
    /\ last.sent # <<>> =>
          /\ last.op = "execute"
          /\ last.id \in DOMAIN proposals
          /\ last.sent = TransferOf(last.id)
          /\ now >= proposals[last.id].vote_end
          /\ ForWeight(last.id) > AgainstWeight(last.id)
    /\ \A id \in DOMAIN proposals :
          (proposals[id].executed \/ paid[id] > 0) => now >= proposals[id].vote_end

\* C4 witness: execute was called inside the voting window on a proposal the
\* tally favours, and no transfer was invoked.
C4_Witness ==
    /\ last.op = "execute"
    /\ Pending(last.id)
    /\ now < proposals[last.id].vote_end
    /\ ForWeight(last.id) > AgainstWeight(last.id)
    /\ last.transfer_ok
    /\ last.sent = <<>>
    /\ paid[last.id] = 0

\* C5: execute on a stored, not executed proposal with now >= vote_end and
\* against_weight >= for_weight returns ProposalNotAccepted, invokes no
\* transfer and leaves executed FALSE.
C5_RejectedReturnsNotAccepted ==
    [][\A id \in Ids :
        (/\ ExecuteCalled(id)
         /\ Pending(id)
         /\ now >= proposals[id].vote_end
         /\ AgainstWeight(id) >= ForWeight(id))
        => (/\ last'.result = "ProposalNotAccepted"
            /\ last'.sent = <<>>
            /\ ~proposals'[id].executed)]_vars

\* C6: execute on a stored, not executed proposal while now < vote_end
\* returns VotePeriodNotEnded, invokes no transfer and changes no persisted
\* state, whatever the balances are.
C6_VotePeriodNotEnded ==
    [][\A id \in Ids :
        (/\ ExecuteCalled(id)
         /\ Pending(id)
         /\ now < proposals[id].vote_end)
        => (/\ last'.result = "VotePeriodNotEnded"
            /\ last'.sent = <<>>
            /\ UNCHANGED <<persisted, paid>>)]_vars

\* C6 witness: execute returned VotePeriodNotEnded for a proposal in its
\* window whose tally would accept it.
C6_Witness ==
    /\ last.op = "execute"
    /\ last.result = "VotePeriodNotEnded"
    /\ Pending(last.id)
    /\ now < proposals[last.id].vote_end
    /\ now > proposals[last.id].vote_start
    /\ ForWeight(last.id) > AgainstWeight(last.id)

\* C8: execute with an id at or beyond the number of stored proposals
\* returns ProposalNotFound, invokes no transfer and changes no persisted
\* state.
C8_ProposalNotFound ==
    [][\A id \in Ids :
        (ExecuteCalled(id) /\ id >= next_proposal_id)
        => (/\ id \notin DOMAIN proposals
            /\ last'.result = "ProposalNotFound"
            /\ last'.sent = <<>>
            /\ UNCHANGED <<persisted, paid>>)]_vars

\* C8 witness: with a proposal stored, execute of an unknown id returned
\* ProposalNotFound.
C8_Witness ==
    /\ last.op = "execute"
    /\ last.result = "ProposalNotFound"
    /\ next_proposal_id > 0
    /\ last.id >= next_proposal_id

\* C9: propose with amount = 0 returns AmountShouldNotBeZero, whatever the
\* duration, stores nothing and leaves the id counter as it was.
C9_AmountShouldNotBeZero ==
    [][(ProposeCalled /\ last'.amount = 0)
        => (/\ last'.result = "AmountShouldNotBeZero"
            /\ UNCHANGED persisted)]_vars

\* C9 witness: propose with amount 0 and an invalid duration was refused for
\* its amount, after a proposal had been stored.
C9_Witness ==
    /\ last.op = "propose"
    /\ last.amount = 0
    /\ last.duration = 0
    /\ last.result = "AmountShouldNotBeZero"
    /\ next_proposal_id > 0

\* C10: propose with amount > 0 and a duration that is 0 or above 60 returns
\* DurationError, stores nothing and leaves the id counter as it was.
C10_DurationError ==
    [][(ProposeCalled /\ last'.amount > 0
          /\ (last'.duration = 0 \/ last'.duration > 60))
        => (/\ last'.result = "DurationError"
            /\ UNCHANGED persisted)]_vars

\* C11: a successful propose stores its proposal under the id the counter
\* showed and adds one to the counter; no other step changes the counter;
\* the stored ids are exactly 0 .. next_proposal_id - 1; and get_proposal and
\* get_proposals_size report just that.
C11_SequentialIds ==
    [][/\ (ProposeCalled /\ last'.result = "Ok")
            => (/\ next_proposal_id' = next_proposal_id + 1
                /\ DOMAIN proposals' = DOMAIN proposals \cup {next_proposal_id}
                /\ next_proposal_id \notin DOMAIN proposals)
       /\ ~(ProposeCalled /\ last'.result = "Ok")
            => UNCHANGED <<next_proposal_id, proposals>>
       /\ DOMAIN proposals' = 0 .. (next_proposal_id' - 1)
       /\ last'.op = "get_proposal"
            => (last'.proposal # None <=> last'.id < next_proposal_id)
       /\ last'.op = "get_proposals_size"
            => last'.size = Cardinality(DOMAIN proposals)]_vars

\* C11 witness: after a failed propose the counter still equals the number
\* of stored proposals, which are more than one.
C11_Witness ==
    /\ last.op = "propose"
    /\ last.result # "Ok"
    /\ next_proposal_id = MaxProposals
    /\ MaxProposals > 1
    /\ DOMAIN proposals = 0 .. (MaxProposals - 1)

\* C12: every id that has a proposal record also has a vote-tracking record.
C12_VoteRecordInitialized ==
    \A id \in DOMAIN proposals : id \in DOMAIN proposal_votes

\* C13: get_proposal_vote returns None for an id without a proposal, and for
\* a stored proposal the tally of the current balances of its for_address
\* and against_address.
C13_PeekTally ==
    last.op = "get_proposal_vote" =>
        IF last.id \in DOMAIN proposals
        THEN /\ last.result = "Some"
             /\ last.vote = Some(CurrentVotes(proposals[last.id]))
        ELSE /\ last.result = "None"
             /\ last.vote = None

\* C14: a call of get_proposal_vote changes no persisted state and makes no
\* transfer.
C14_PeekTallyReadOnly ==
    [][last'.op = "get_proposal_vote"
        => (/\ UNCHANGED <<persisted, paid>>
            /\ last'.sent = <<>>)]_vars

\* C14 witness: get_proposal_vote has been called on a stored proposal whose
\* window has closed.
C14_Witness ==
    /\ last.op = "get_proposal_vote"
    /\ last.id \in DOMAIN proposals
    /\ now >= proposals[last.id].vote_end
    /\ proposal_votes = <<>>

\* C15: every stored proposal has amount > 0 and a voting window with
\* vote_start < vote_end that is at most 60 minutes long.
C15_ProposalInvariant ==
    \A id \in DOMAIN proposals :
        /\ proposals[id].amount > 0
        /\ proposals[id].vote_start < proposals[id].vote_end
        /\ proposals[id].vote_end - proposals[id].vote_start <= 60 * ONE_MINUTE

\* C16: weights are balances mod 256, so execute on a stored, not executed
\* proposal whose window has closed, with a for balance of 256 and an against
\* balance of 1, returns ProposalNotAccepted.
C16_TruncatedWeightRejects ==
    [][\A id \in Ids :
        (/\ ExecuteCalled(id)
         /\ Pending(id)
         /\ now >= proposals[id].vote_end
         /\ balance[proposals[id].for_address] = 256
         /\ balance[proposals[id].against_address] = 1)
        => (/\ ForWeight(id) = 0
            /\ AgainstWeight(id) = 1
            /\ last'.result = "ProposalNotAccepted")]_vars

\* C17: a stored proposal is never removed, none of its fields other than
\* executed ever changes, a later propose stores under a fresh id, and
\* propose makes no transfer.
C17_ProposalFieldsFrozen ==
    [][/\ \A id \in DOMAIN proposals :
            /\ id \in DOMAIN proposals'
            /\ [proposals'[id] EXCEPT !.executed = proposals[id].executed]
                 = proposals[id]
       /\ ProposeCalled => (last'.sent = <<>> /\ paid' = paid)]_vars

\* C17 witness: a second, different proposal has just been stored beside
\* the first.
C17_Witness ==
    /\ last.op = "propose"
    /\ last.result = "Ok"
    /\ next_proposal_id > 1
    /\ proposals[0] # proposals[next_proposal_id - 1]
    /\ proposals[0].vote_start < proposals[next_proposal_id - 1].vote_start

\* C18: a successful propose at clock T with duration d stores executed =
\* FALSE, vote_start = T and vote_end = T + d * ONE_MINUTE; and execute of a
\* stored proposal returns VotePeriodNotEnded exactly when the clock is
\* below its vote_end.
C18_WindowOfProposal ==
    [][/\ (ProposeCalled /\ last'.result = "Ok")
            => (/\ next_proposal_id \in DOMAIN proposals'
                /\ ~proposals'[next_proposal_id].executed
                /\ proposals'[next_proposal_id].vote_start = now
                /\ proposals'[next_proposal_id].vote_end
                     = now + last'.duration * ONE_MINUTE)
       /\ \A id \in DOMAIN proposals :
            ExecuteCalled(id)
            => (last'.result = "VotePeriodNotEnded"
                  <=> now < proposals[id].vote_end)]_vars

\* C18 witness: execute at the very end of the window of a proposal stored
\* at clock 0 did not return VotePeriodNotEnded.
C18_Witness ==
    /\ last.op = "execute"
    /\ last.id \in DOMAIN proposals
    /\ proposals[last.id].vote_start = 0
    /\ now = proposals[last.id].vote_end
    /\ last.result # "VotePeriodNotEnded"

\* C19: proposal_votes never has an entry.
C19_NoVoteRecords == DOMAIN proposal_votes = {}

\* C19 witness: every slot holds a proposal, execute and get_proposal_vote
\* have looked a vote record up, and the table is still empty.
C19_Witness ==
    /\ next_proposal_id = MaxProposals
    /\ last.op \in {"execute", "get_proposal_vote"}
    /\ last.result = "Panic"
    /\ DOMAIN proposal_votes = {}

====
